---- MODULE Spec2Model ----
(***************************************************************************)
(* Model of the subtitle generator: the captions export/import pair of    *)
(* srt_tools.py, the colour helper and the per-time frame function of      *)
(* subtitle_core.py, and the render entry point of app.py.                 *)
(*                                                                         *)
(* Text is modelled as a sequence of one-character strings, so that the   *)
(* string operations of the code (strip, split, join, slicing, int(s,16)) *)
(* are computed as the code computes them.  Times are integers            *)
(* (milliseconds); pixel measures are integers.                           *)
(***************************************************************************)
EXTENDS Integers, Sequences, FiniteSets, TLC

VARIABLES
    \* --- hex_to_rgba (subtitle_core.py) ---
    hex_color,            \* the colour string passed in
    alpha_percent,        \* the opacity percent passed in
    rgba,                 \* what the call produced
    \* --- make_frame (subtitle_core.py) ---
    transcript,           \* the transcript given to render_subtitled_video
    cfg,                  \* the style values make_frame closes over
    frame,                \* what the last make_frame(t) call produced
    requests,             \* the frame requests made so far and what they returned
    \* --- captions export / import (srt_tools.py, app.py SRT editor) ---
    original_transcript,  \* st.session_state.original_transcript
    srt_content,          \* st.session_state.srt_content
    edited_srt,           \* the text in the SRT editor text area
    editor_blocks,        \* what the user sees in the editor, block by block
    edits,                \* number of edits the user made
    edited_transcript,    \* what from_srt returned
    srt_pc,               \* "idle", "start", "exported" or "imported"
    \* --- generate_video (app.py) ---
    session,              \* the style keys of st.session_state
    gen_result,           \* what generate_video returned
    \* --- render_subtitled_video (subtitle_core.py) ---
    env,                  \* platform, font files and colour strings of a render
    render,               \* the position and the effects of the running render
    \* --- draw_rounded_rectangle (subtitle_core.py) ---
    rect,                 \* the arguments of a call and the primitives it drew
    \* --- handle_generation, regenerate, output section (app.py) ---
    app,                  \* the st.session_state keys the handlers read and write
    disk,                 \* the temporary directories made and the files in them
    page                  \* what the output section showed in the last script run

vars == << hex_color, alpha_percent, rgba, transcript, cfg, frame, requests,
           original_transcript, srt_content, edited_srt, editor_blocks, edits,
           edited_transcript, srt_pc, session, gen_result, env, render, rect,
           app, disk, page >>

colorVars == << hex_color, alpha_percent, rgba >>
frameVars == << transcript, cfg, frame, requests >>
srtVars == << original_transcript, srt_content, edited_srt, editor_blocks, edits,
              edited_transcript, srt_pc >>
genVars == << session, gen_result >>
renderVars == << env, render >>
rectVars == << rect >>
appVars == << app, disk, page >>

-----------------------------------------------------------------------------
(* Bounds of the model. *)

MaxSegs == 2        \* segments per transcript
MaxWords == 2       \* words per segment
MaxTime == 3        \* times range over 0..MaxTime
MaxEdits == 1       \* edits the user makes before importing
MaxHexLen == 7      \* length of a colour string
MaxRequests == 3    \* frame requests whose results are kept for comparison
MaxVideos == 3      \* videos the user may upload
MaxRuns == 3        \* temporary directories made in a session

-----------------------------------------------------------------------------
(* Python string operations on sequences of characters. *)

Max(a, b) == IF a >= b THEN a ELSE b
Min(a, b) == IF a <= b THEN a ELSE b

\* str.isspace for the characters of the model
IsSpace(c) == c \in {" ", "\n"}

\* the least element of a non-empty set of numbers
Least(S) == CHOOSE x \in S : \A y \in S : x <= y

\* str.lstrip()
LStrip(s) ==
    LET kept == { k \in 1..Len(s) : ~IsSpace(s[k]) }
    IN IF kept = {} THEN <<>> ELSE SubSeq(s, Least(kept), Len(s))

\* str.rstrip()
RStrip(s) ==
    LET back == { k \in 0..(Len(s) - 1) : ~IsSpace(s[Len(s) - k]) }
    IN IF back = {} THEN <<>> ELSE SubSeq(s, 1, Len(s) - Least(back))

\* str.strip()
Strip(s) == RStrip(LStrip(s))

\* sep occurs in s at position k
SepAt(s, sep, k) == k + Len(sep) - 1 <= Len(s) /\ SubSeq(s, k, k + Len(sep) - 1) = sep

RECURSIVE SplitGo(_, _, _)
\* the parts of s from position from on: the leftmost separator is taken first
SplitGo(s, sep, from) ==
    LET hits == { k \in from..Len(s) : SepAt(s, sep, k) }
    IN IF hits = {} THEN << SubSeq(s, from, Len(s)) >>
       ELSE << SubSeq(s, from, Least(hits) - 1) >> \o SplitGo(s, sep, Least(hits) + Len(sep))

\* str.split(sep): never empty, '' splits to ['']
Split(s, sep) == SplitGo(s, sep, 1)

RECURSIVE SplitWsGo(_, _)
SplitWsGo(s, from) ==
    LET starts == { k \in from..Len(s) : ~IsSpace(s[k]) }
        a == Least(starts)
        ends == { k \in a..Len(s) : IsSpace(s[k]) }
        b == IF ends = {} THEN Len(s) + 1 ELSE Least(ends)
    IN IF starts = {} THEN <<>>
       ELSE << SubSeq(s, a, b - 1) >> \o SplitWsGo(s, b)

\* str.split() with no argument: runs of whitespace separate, no empty token
SplitWs(s) == SplitWsGo(s, 1)

RECURSIVE Join(_, _)
\* sep.join(parts)
Join(parts, sep) ==
    IF parts = <<>> THEN <<>>
    ELSE IF Len(parts) = 1 THEN parts[1]
         ELSE parts[1] \o sep \o Join(Tail(parts), sep)

DigitChar(d) == << "0", "1", "2", "3", "4", "5", "6", "7", "8", "9" >>[d + 1]

RECURSIVE Str(_)
\* str(n) of a non-negative integer
Str(n) == IF n < 10 THEN << DigitChar(n) >> ELSE Str(n \div 10) \o << DigitChar(n % 10) >>

RECURSIVE ZeroPad(_, _)
\* f"{n:0w}"
ZeroPad(n, w) == IF Len(Str(n)) >= w THEN Str(n) ELSE << "0" >> \o ZeroPad(n, w - 1)

-----------------------------------------------------------------------------
(* srt_tools.py *)

\* _format_time: timedelta keeps days apart, so .seconds is the time of day
format_time(ms) ==
    LET td_seconds == (ms \div 1000) % 86400
        hours == td_seconds \div 3600
        remainder == td_seconds % 3600
        minutes == remainder \div 60
        seconds == remainder % 60
        milliseconds == ms % 1000
    IN ZeroPad(hours, 2) \o << ":" >> \o ZeroPad(minutes, 2) \o << ":" >>
       \o ZeroPad(seconds, 2) \o << "," >> \o ZeroPad(milliseconds, 3)

Arrow == << " ", "-", "-", ">", " " >>
NL == << "\n" >>

\* " ".join(word["word"] for word in seg["words"]).strip()
SegText(seg) == Strip(Join([j \in 1..Len(seg.words) |-> seg.words[j].word], << " " >>))

\* the block to_srt writes for segment number i (0-based) of the transcript
SrtBlock(i, seg) ==
    Str(i + 1) \o NL
    \o format_time(seg.start) \o Arrow \o format_time(seg.end) \o NL
    \o SegText(seg) \o NL \o NL

RECURSIVE ToSrtFrom(_, _)
ToSrtFrom(tr, i) ==
    IF i >= Len(tr) THEN <<>>
    ELSE (IF SegText(tr[i + 1]) = <<>> THEN <<>> ELSE SrtBlock(i, tr[i + 1]))
         \o ToSrtFrom(tr, i + 1)

to_srt(tr) == ToSrtFrom(tr, 0)

\* a word mapping that gives every word the first token of the edited text
NewWordTextFirst(new_words_list, original_word_data, j) ==
    IF j < Len(new_words_list) THEN new_words_list[1] ELSE original_word_data.word

\* new_words_list[j] if j < len(new_words_list) else original_word_data["word"]
NewWordText(new_words_list, original_word_data, j) ==
    IF j < Len(new_words_list) THEN new_words_list[j + 1] ELSE original_word_data.word

\* the segment from_srt builds from the edited text and the original segment
MapWords(new_text, original_segment) ==
    LET new_words_list == SplitWs(new_text)
        num_words == Len(original_segment.words)
    IN [ start |-> original_segment.start,
         end |-> original_segment.end,
         words |-> [ j \in 1..num_words |->
                       [ word |-> NewWordText(new_words_list, original_segment.words[j], j - 1),
                         start |-> original_segment.words[j].start,
                         end |-> original_segment.words[j].end ] ] ]

\* one pass of the loop of from_srt over block i (0-based) of the split text:
\* "skip" (continue), "raise" (the unpacking of the timestamp line fails),
\* "none" (no original segment at that position) or "seg"
FromSrtBlock(i, segment_str, original_segments) ==
    LET lines == Split(Strip(segment_str), NL)
        times_parts == Split(lines[2], Arrow)
        new_text == Strip(Join(SubSeq(lines, 3, Len(lines)), << " " >>))
    IN IF Len(lines) < 3 THEN [ kind |-> "skip" ]
       ELSE IF Len(times_parts) # 2 THEN [ kind |-> "raise" ]
       ELSE IF i < Len(original_segments)
            THEN [ kind |-> "seg", seg |-> MapWords(new_text, original_segments[i + 1]) ]
            ELSE [ kind |-> "none" ]

RECURSIVE FromSrtLoop(_, _, _, _)
FromSrtLoop(segments, original_segments, i, new_transcript) ==
    IF i >= Len(segments) THEN [ error |-> "", transcript |-> new_transcript ]
    ELSE LET r == FromSrtBlock(i, segments[i + 1], original_segments)
         IN IF r.kind = "raise" THEN [ error |-> "ValueError", transcript |-> <<>> ]
            ELSE FromSrtLoop(segments, original_segments, i + 1,
                             IF r.kind = "seg" THEN Append(new_transcript, r.seg)
                             ELSE new_transcript)

from_srt(srt_string, original) ==
    LET segments == Split(Strip(srt_string), << "\n", "\n" >>)
        \* every segment of the model has the key "words"
        original_segments == original
    IN FromSrtLoop(segments, original_segments, 0, <<>>)

-----------------------------------------------------------------------------
(* Captions export and import: the inputs and the editor. *)

Letter(j) == << "a", "b", "c", "d" >>[j + 1]

\* word j (0-based) of segment i (0-based) as transcribe builds it: Whisper's
\* word text carries a leading space; times are distinct per position
SrtWord(i, j) ==
    [ word |-> << " ", Letter(j) >>,
      start |-> 61000 * i + 500 * j + 250,
      end |-> 61000 * i + 500 * j + 700 ]

\* a segment of n words; n = -1 stands for a segment whose only word is blank
SrtSegment(i, n) ==
    [ start |-> 61000 * i + 250,
      end |-> 61000 * i + 500 * Max(n, 1) + 200,
      words |-> IF n = -1
                THEN << [ word |-> << " " >>, start |-> 61000 * i + 250,
                          end |-> 61000 * i + 700 ] >>
                ELSE [ j \in 1..n |-> SrtWord(i, j - 1) ] ]

SrtTranscripts ==
    UNION { { [ i \in 1..n |-> SrtSegment(i - 1, shape[i]) ] :
                shape \in [ 1..n -> -1..MaxWords ] } : n \in 0..MaxSegs }

\* the words the user reads in an exported block
ShownTokens(seg) ==
    LET shown == SelectSeq(seg.words, LAMBDA w : w.word # << " " >>)
    IN [ j \in 1..Len(shown) |-> << shown[j].word[2] >> ]

RECURSIVE EditorFrom(_, _)
\* the blocks of the exported captions as the editor shows them
EditorFrom(tr, i) ==
    IF i >= Len(tr) THEN <<>>
    ELSE (IF ShownTokens(tr[i + 1]) = <<>> THEN <<>>
          ELSE << [ num |-> i + 1,
                    times |-> format_time(tr[i + 1].start) \o Arrow
                              \o format_time(tr[i + 1].end),
                    text |-> SegText(tr[i + 1]),
                    tokens |-> ShownTokens(tr[i + 1]) ] >>)
         \o EditorFrom(tr, i + 1)

RECURSIVE EditorText(_)
\* the text of the editor's text area
EditorText(blocks) ==
    IF blocks = <<>> THEN <<>>
    ELSE Str(blocks[1].num) \o NL \o blocks[1].times \o NL \o blocks[1].text \o NL \o NL
         \o EditorText(Tail(blocks))

\* what the user may type in place of a block's text
EditTexts ==
    { [ text |-> <<>>, tokens |-> <<>> ],
      [ text |-> << "x" >>, tokens |-> << << "x" >> >> ],
      [ text |-> << "x", " ", " ", "y" >>, tokens |-> << << "x" >>, << "y" >> >> ],
      [ text |-> << "x", "\n", "y", " ", "z", " ", "w" >>,
        tokens |-> << << "x" >>, << "y" >>, << "z" >>, << "w" >> >> ] }

SrtIdle ==
    /\ original_transcript = <<>>
    /\ srt_content = <<>>
    /\ edited_srt = <<>>
    /\ editor_blocks = <<>>
    /\ edits = 0
    /\ edited_transcript = [ error |-> "", transcript |-> <<>> ]
    /\ srt_pc = "idle"

\* srt_content = to_srt(transcript), shown in the editor
Export ==
    /\ srt_pc = "start"
    /\ srt_content' = to_srt(original_transcript)
    /\ edited_srt' = to_srt(original_transcript)
    /\ editor_blocks' = EditorFrom(original_transcript, 0)
    /\ srt_pc' = "exported"
    /\ UNCHANGED << original_transcript, edits, edited_transcript >>
    /\ UNCHANGED << colorVars, frameVars, genVars, renderVars, rectVars, appVars >>

\* the user replaces the text of block p
EditBlockText(p, e) ==
    /\ srt_pc = "exported"
    /\ edits < MaxEdits
    /\ p \in 1..Len(editor_blocks)
    /\ editor_blocks' = [ editor_blocks EXCEPT ![p].text = e.text, ![p].tokens = e.tokens ]
    /\ edited_srt' = EditorText(editor_blocks')
    /\ edits' = edits + 1
    /\ UNCHANGED << original_transcript, srt_content, edited_transcript, srt_pc >>
    /\ UNCHANGED << colorVars, frameVars, genVars, renderVars, rectVars, appVars >>

\* what the user may leave in place of a block's timestamp line
TimesEdits ==
    { << "x" >>,
      << "0" >> \o Arrow \o << "1" >> \o Arrow \o << "2" >> }

\* the user overwrites the timestamp line of block p
EditBlockTimes(p, tl) ==
    /\ srt_pc = "exported"
    /\ edits < MaxEdits
    /\ p \in 1..Len(editor_blocks)
    /\ editor_blocks' = [ editor_blocks EXCEPT ![p].times = tl ]
    /\ edited_srt' = EditorText(editor_blocks')
    /\ edits' = edits + 1
    /\ UNCHANGED << original_transcript, srt_content, edited_transcript, srt_pc >>
    /\ UNCHANGED << colorVars, frameVars, genVars, renderVars, rectVars, appVars >>

\* the user deletes block p
DeleteBlock(p) ==
    /\ srt_pc = "exported"
    /\ edits < MaxEdits
    /\ p \in 1..Len(editor_blocks)
    /\ editor_blocks' = SubSeq(editor_blocks, 1, p - 1)
                        \o SubSeq(editor_blocks, p + 1, Len(editor_blocks))
    /\ edited_srt' = EditorText(editor_blocks')
    /\ edits' = edits + 1
    /\ UNCHANGED << original_transcript, srt_content, edited_transcript, srt_pc >>
    /\ UNCHANGED << colorVars, frameVars, genVars, renderVars, rectVars, appVars >>

\* edited_transcript = from_srt(edited_srt, original_transcript); the call is
\* made on unedited text as well, so that the export/import pair is exercised
Import ==
    /\ srt_pc = "exported"
    /\ edited_transcript' = from_srt(edited_srt, original_transcript)
    /\ srt_pc' = "imported"
    /\ UNCHANGED << original_transcript, srt_content, edited_srt, editor_blocks, edits >>
    /\ UNCHANGED << colorVars, frameVars, genVars, renderVars, rectVars, appVars >>

-----------------------------------------------------------------------------
(* hex_to_rgba: subtitle_core.py and the preview's copy in app.py *)

HexDigitChars == { "0", "8", "F" }

HexVal(c) == CASE c = "0" -> 0 [] c = "8" -> 8 [] c = "F" -> 15

\* s[a:b] of Python: the slice is cut to the string's length
Slice(s, a, b) == SubSeq(s, a + 1, Min(b, Len(s)))

RECURSIVE LStripHash(_)
\* hex_color.lstrip('#')
LStripHash(s) == IF s # <<>> /\ Head(s) = "#" THEN LStripHash(Tail(s)) ELSE s

RECURSIVE HexNumber(_)
HexNumber(ds) == IF ds = <<>> THEN 0 ELSE 16 * HexNumber(SubSeq(ds, 1, Len(ds) - 1)) + HexVal(ds[Len(ds)])

\* int(s, 16) for a slice s of at most two characters: surrounding whitespace is
\* dropped, one sign is accepted, the rest must be one or more hex digits
IntBase16(s) ==
    LET body == Strip(s)
        signed == body # <<>> /\ Head(body) \in { "+", "-" }
        digits == IF signed THEN Tail(body) ELSE body
        valid == digits # <<>> /\ \A k \in 1..Len(digits) : digits[k] \in HexDigitChars
    IN [ ok |-> valid,
         value |-> IF ~valid THEN 0
                   ELSE IF signed /\ Head(body) = "-" THEN 0 - HexNumber(digits)
                   ELSE HexNumber(digits) ]

\* int(x / 100.0) for an integer x: truncation towards zero
TruncDiv100(x) == IF x >= 0 THEN x \div 100 ELSE 0 - ((0 - x) \div 100)

\* a = int(255 * (alpha_percent / 100.0)), with no clamp of alpha_percent
AlphaOf(alpha) == TruncDiv100(255 * alpha)

hex_to_rgba(hex, alpha) ==
    LET h == LStripHash(hex)
        r == IntBase16(Slice(h, 0, 2))
        g == IntBase16(Slice(h, 2, 4))
        b == IntBase16(Slice(h, 4, 6))
    IN IF r.ok /\ g.ok /\ b.ok
       THEN [ fn |-> "core", status |-> "ok",
              value |-> << r.value, g.value, b.value, AlphaOf(alpha) >> ]
       ELSE [ fn |-> "core", status |-> "ValueError", value |-> <<>> ]

\* app.py's copy: an unparsable string gives transparent black, no error
preview_hex_to_rgba(hex, alpha) ==
    LET core == hex_to_rgba(hex, alpha)
    IN IF core.status = "ok" THEN [ core EXCEPT !.fn = "preview" ]
       ELSE [ fn |-> "preview", status |-> "ok", value |-> << 0, 0, 0, 0 >> ]

HexAlphabet == { "#", "F", "Z", "+" }

HexInputs == UNION { [ 1..n -> HexAlphabet ] : n \in 0..MaxHexLen }

ValidColours == { << "#", "F", "F", "F", "F", "F", "F" >>,
                  << "0", "8", "F", "F", "8", "0" >> }

AlphaInputs == -2..102 \cup { 150, 200 }

ColorIdle ==
    /\ hex_color = <<>>
    /\ alpha_percent = 0
    /\ rgba = [ fn |-> "", status |-> "idle", value |-> <<>> ]

CallHexToRgba ==
    /\ rgba.status = "none"
    /\ rgba' = hex_to_rgba(hex_color, alpha_percent)
    /\ UNCHANGED << hex_color, alpha_percent >>
    /\ UNCHANGED << frameVars, srtVars, genVars, renderVars, rectVars, appVars >>

CallPreviewHexToRgba ==
    /\ rgba.status = "none"
    /\ rgba' = preview_hex_to_rgba(hex_color, alpha_percent)
    /\ UNCHANGED << hex_color, alpha_percent >>
    /\ UNCHANGED << frameVars, srtVars, genVars, renderVars, rectVars, appVars >>

-----------------------------------------------------------------------------
(* render_subtitled_video: the values make_frame closes over.              *)
(* A font is its pixel size; a text's length is its character count times  *)
(* the font size, a text's box is as high as the font size.                *)

DefaultFontSize == 10

\* ImageFont.truetype(font_path, font_size) if font_path else load_default()
normal_font(c) == [ size |-> IF c.font_path_found THEN c.font_size ELSE DefaultFontSize ]

\* ImageFont.truetype(font_path, int(font_size * active_word_size_scale)) ...
active_font(c) ==
    [ size |-> IF c.font_path_found THEN TruncDiv100(c.font_size * c.scale_percent)
               ELSE DefaultFontSize ]

\* int(width * (subtitle_area_width_percent / 100.0))
max_subtitle_width_pixels(c) == TruncDiv100(c.width * c.subtitle_area_width_percent)

padding == 10

\* overlay_draw.textlength(text, font=font)
textlength(text, font) == Len(text) * font.size

\* the height of overlay_draw.textbbox((0, 0), text, font=font)
textheight(font) == font.size

\* x * 1.2 and x * 0.5 for the multiples of ten the model measures in
Times12(x) == (x * 12) \div 10
Half(x) == x \div 2

Upper(ch) == CASE ch = "a" -> "A" [] ch = "b" -> "B" [] OTHER -> ch
Lower(ch) == CASE ch = "A" -> "a" [] ch = "B" -> "b" [] OTHER -> ch
IsCased(ch) == ch \in { "a", "b", "A", "B" }

apply_case(word_text, case_option) ==
    CASE case_option = "UPPERCASE" -> [ k \in 1..Len(word_text) |-> Upper(word_text[k]) ]
      [] case_option = "lowercase" -> [ k \in 1..Len(word_text) |-> Lower(word_text[k]) ]
      [] case_option = "Title Case" ->
            [ k \in 1..Len(word_text) |->
                IF k > 1 /\ IsCased(word_text[k - 1]) THEN Lower(word_text[k])
                ELSE Upper(word_text[k]) ]
      [] OTHER -> word_text

-----------------------------------------------------------------------------
(* make_frame *)

\* a segment test that forgets the segment's end
SegMatchesNoEnd(seg, t) == seg.start <= t

\* seg["start"] <= t <= seg["end"]
SegMatches(seg, t) == seg.start <= t /\ t <= seg.end

\* a loop over the segments that goes on after a match
BreakNever == FALSE

\* the break that ends the loop over the segments after the first match
BreakAfterMatch == TRUE

\* is_active_word = (word_data["start"] <= t <= word_data["end"])
is_active_word(word_data, t) == word_data.start <= t /\ t <= word_data.end

\* word_font = active_font if is_active_word else normal_font
word_font(c, word_data, t) ==
    IF is_active_word(word_data, t) THEN active_font(c) ELSE normal_font(c)

\* word_width = overlay_draw.textlength(word_text, font=word_font)
word_width(c, word_data, t) ==
    textlength(apply_case(word_data.word, c.word_case), word_font(c, word_data, t))

\* an end of the loop that forgets the line still being filled
FlushLineNever(wrapped_lines_data, current_line_words_data) == wrapped_lines_data

\* if current_line_words_data: wrapped_lines_data.append(current_line_words_data)
FlushLine(wrapped_lines_data, current_line_words_data) ==
    IF current_line_words_data # <<>>
    THEN Append(wrapped_lines_data, current_line_words_data)
    ELSE wrapped_lines_data

RECURSIVE WrapLoop(_, _, _, _, _, _, _)
\* the loop over seg["words"]; a line is the sequence of the positions of its
\* words in the segment
WrapLoop(c, seg, t, j, wrapped_lines_data, current_line_words_data, current_line_width) ==
    IF j > Len(seg.words)
    THEN FlushLine(wrapped_lines_data, current_line_words_data)
    ELSE LET ww == word_width(c, seg.words[j], t)
             space_width == IF current_line_width # 0
                            THEN textlength(<< " " >>, normal_font(c)) ELSE 0
         IN IF current_line_width # 0
               /\ current_line_width + space_width + ww > max_subtitle_width_pixels(c)
            THEN WrapLoop(c, seg, t, j + 1,
                          Append(wrapped_lines_data, current_line_words_data), << j >>, ww)
            ELSE WrapLoop(c, seg, t, j + 1, wrapped_lines_data,
                          Append(current_line_words_data, j),
                          (IF current_line_width # 0 THEN current_line_width + space_width
                           ELSE current_line_width) + ww)

wrapped_lines(c, seg, t) == WrapLoop(c, seg, t, 1, <<>>, <<>>, 0)

RECURSIVE SumSeq(_)
SumSeq(xs) == IF xs = <<>> THEN 0 ELSE Head(xs) + SumSeq(Tail(xs))

\* line_width_actual of one line
line_width_actual(c, seg, t, line) ==
    SumSeq([ k \in 1..Len(line) |->
               word_width(c, seg.words[line[k]], t) + textlength(<< " " >>, normal_font(c)) ])
    - textlength(<< " " >>, normal_font(c))

RECURSIVE BlockWidthLoop(_, _, _, _, _, _)
BlockWidthLoop(c, seg, t, lines, k, actual_block_width) ==
    IF k > Len(lines) THEN actual_block_width
    ELSE BlockWidthLoop(c, seg, t, lines, k + 1,
                        IF line_width_actual(c, seg, t, lines[k]) > actual_block_width
                        THEN line_width_actual(c, seg, t, lines[k])
                        ELSE actual_block_width)

actual_block_width(c, seg, t, lines) == BlockWidthLoop(c, seg, t, lines, 1, 0)

\* max(font_size * 1.2, height of "Tg" in the normal font + 5)
line_height_estimate(c) == Max(Times12(c.font_size), textheight(normal_font(c)) + 5)

\* the (dx, dy) of the outline stamps, in the order of the two nested loops
OutlineOffsets(border_thickness) ==
    LET side == 2 * border_thickness + 1
        all == [ n \in 1..(side * side) |->
                   << ((n - 1) \div side) - border_thickness,
                      ((n - 1) % side) - border_thickness >> ]
    IN SelectSeq(all, LAMBDA o : o[1] # 0 \/ o[2] # 0)

\* the draw calls for word j of the segment at (current_word_x, current_line_y)
WordDraws(c, seg, si, t, j, current_word_x, current_line_y) ==
    LET word_data == seg.words[j]
        active == is_active_word(word_data, t)
        rendered_word_text == apply_case(Strip(word_data.word), c.word_case)
        wf == word_font(c, word_data, t)
        fill_color == IF active THEN "active_text_rgba" ELSE "normal_text_rgba"
        border_color == IF active THEN "active_border_rgba" ELSE "normal_border_rgba"
        border_thickness == IF active THEN c.active_border_thickness
                            ELSE c.normal_border_thickness
        space_width == Half(textlength(<< " " >>, active_font(c)))
        amy_fixed_height == textheight(active_font(c))
        word_bg ==
            IF active /\ c.active_word_bg_opacity > 0
            THEN << [ op |-> "rounded_rectangle", what |-> "word_bg", seg |-> si, word |-> j,
                      text |-> <<>>, font |-> 0, fill |-> "active_word_bg_rgba",
                      xy |-> << current_word_x - space_width, current_line_y,
                                current_word_x + textlength(rendered_word_text, wf) + space_width,
                                current_line_y + Times12(amy_fixed_height) >>,
                      radius |-> c.active_word_bg_border_radius ] >>
            ELSE <<>>
        offsets == IF border_thickness > 0 THEN OutlineOffsets(border_thickness) ELSE <<>>
        outline ==
            [ n \in 1..Len(offsets) |->
                [ op |-> "text", what |-> "outline", seg |-> si, word |-> j,
                  text |-> rendered_word_text, font |-> wf.size, fill |-> border_color,
                  xy |-> << current_word_x + offsets[n][1], current_line_y + offsets[n][2] >>,
                  radius |-> 0 ] ]
        glyph ==
            << [ op |-> "text", what |-> "fill", seg |-> si, word |-> j,
                 text |-> rendered_word_text, font |-> wf.size, fill |-> fill_color,
                 xy |-> << current_word_x, current_line_y >>, radius |-> 0 ] >>
    IN [ draws |-> word_bg \o outline \o glyph,
         next_x |-> current_word_x + textlength(rendered_word_text \o << " " >>, wf) ]

RECURSIVE LineDraws(_, _, _, _, _, _, _, _)
\* the loop over the words of one line
LineDraws(c, seg, si, t, line, k, current_word_x, current_line_y) ==
    IF k > Len(line) THEN <<>>
    ELSE LET w == WordDraws(c, seg, si, t, line[k], current_word_x, current_line_y)
         IN w.draws \o LineDraws(c, seg, si, t, line, k + 1, w.next_x, current_line_y)

\* line_width_for_centering of one line
line_width_for_centering(c, seg, t, line) ==
    SumSeq([ k \in 1..Len(line) |->
               textlength(apply_case(seg.words[line[k]].word, c.word_case) \o << " " >>,
                          word_font(c, seg.words[line[k]], t)) ])
    - textlength(<< " " >>, normal_font(c))

RECURSIVE BlockDraws(_, _, _, _, _, _, _)
\* the loop over the wrapped lines
BlockDraws(c, seg, si, t, lines, k, current_line_y) ==
    IF k > Len(lines) THEN <<>>
    ELSE LineDraws(c, seg, si, t, lines[k], 1,
                   (c.width \div 2 + c.x_offset)
                   - (line_width_for_centering(c, seg, t, lines[k]) \div 2),
                   current_line_y)
         \o BlockDraws(c, seg, si, t, lines, k + 1, current_line_y + line_height_estimate(c))

\* the body of the loop over the transcript for a segment that contains t
RenderSegment(c, seg, si, t) ==
    LET lines == wrapped_lines(c, seg, t)
        block_width == actual_block_width(c, seg, t, lines)
        total_text_height == Len(lines) * line_height_estimate(c)
        x_pos_block_start == (c.width \div 2 + c.x_offset) - (block_width \div 2)
        y_pos_pixels == c.height - TruncDiv100(c.height * c.y_position_percent)
        y_pos_block_start == y_pos_pixels - (total_text_height \div 2)
        bg_rect_left == Max(0, x_pos_block_start - padding)
        bg_rect_top == Max(0, y_pos_block_start - Half(padding))
        bg_rect_right == Min(c.width, x_pos_block_start + block_width + padding)
        bg_rect_bottom == Min(c.height, y_pos_block_start + total_text_height
                                        + padding + Half(padding))
        block_bg ==
            IF c.bg_opacity > 0
            THEN << [ op |-> "rounded_rectangle", what |-> "block_bg", seg |-> si, word |-> 0,
                      text |-> <<>>, font |-> 0, fill |-> "background_rgba",
                      xy |-> << bg_rect_left, bg_rect_top, bg_rect_right, bg_rect_bottom >>,
                      radius |-> c.bg_border_radius ] >>
            ELSE <<>>
    IN [ layout |-> [ seg |-> si, lines |-> lines, block_width |-> block_width,
                      x_pos_block_start |-> x_pos_block_start,
                      y_pos_block_start |-> y_pos_block_start,
                      total_text_height |-> total_text_height ],
         draws |-> block_bg
                   \o BlockDraws(c, seg, si, t, lines, 1, y_pos_block_start + padding) ]

\* clip.get_frame(t): the decoded frame, one RGB pixel that tells the time
get_frame(t) == << << t, 128, 255 >> >>

\* Image.fromarray(frame_array).convert("RGBA"): opaque alpha is added
ConvertRGBA(pixels) == [ k \in 1..Len(pixels) |-> Append(pixels[k], 255) ]

\* img.convert("RGB"): the alpha channel is dropped
ConvertRGB(pixels) == [ k \in 1..Len(pixels) |-> SubSeq(pixels[k], 1, 3) ]

\* Image.alpha_composite(img, subtitle_overlay): an image is its base pixels and
\* the drawing laid over them; an overlay nothing was drawn on changes nothing
alpha_composite(img, overlay) == [ img EXCEPT !.over = img.over \o overlay ]

RECURSIVE SegLoop(_, _, _, _, _)
\* for seg in transcript: if seg["start"] <= t <= seg["end"]: ... break
SegLoop(c, tr, t, i, acc) ==
    IF i > Len(tr) THEN acc
    ELSE IF SegMatches(tr[i], t)
         THEN LET r == RenderSegment(c, tr[i], i, t)
                  overlay == acc.draws \o r.draws
                  acc2 == [ rendered |-> Append(acc.rendered, i),
                            layouts |-> Append(acc.layouts, r.layout),
                            draws |-> overlay,
                            composites |-> acc.composites + 1,
                            img |-> alpha_composite(acc.img, overlay) ]
              IN IF BreakAfterMatch THEN acc2 ELSE SegLoop(c, tr, t, i + 1, acc2)
         ELSE SegLoop(c, tr, t, i + 1, acc)

make_frame(c, tr, t) ==
    LET img == [ px |-> ConvertRGBA(get_frame(t)), over |-> <<>> ]
        acc == SegLoop(c, tr, t, 1,
                       [ rendered |-> <<>>, layouts |-> <<>>, draws |-> <<>>,
                         composites |-> 0, img |-> img ])
    IN [ called |-> TRUE, t |-> t, rendered |-> acc.rendered, layouts |-> acc.layouts,
         draws |-> acc.draws, composites |-> acc.composites,
         out |-> [ px |-> ConvertRGB(acc.img.px), over |-> acc.img.over ] ]

NoFrame ==
    [ called |-> FALSE, t |-> 0, rendered |-> <<>>, layouts |-> <<>>, draws |-> <<>>,
      composites |-> 0, out |-> [ px |-> <<>>, over |-> <<>> ] ]

-----------------------------------------------------------------------------
(* make_frame: the inputs and the frame requests. *)

\* the defaults of render_subtitled_video on a 100 x 100 video, font size 20
BaseCfg ==
    [ font_path_found |-> TRUE, font_size |-> 20, scale_percent |-> 100,
      word_case |-> "As Is", width |-> 100, height |-> 100,
      subtitle_area_width_percent |-> 100, y_position_percent |-> 80, x_offset |-> 0,
      bg_opacity |-> 70, bg_border_radius |-> 0,
      active_word_bg_opacity |-> 30, active_word_bg_border_radius |-> 0,
      normal_border_thickness |-> 0, active_border_thickness |-> 1,
      normal_font_opacity |-> 100, normal_border_opacity |-> 100,
      active_font_opacity |-> 100, active_border_opacity |-> 100 ]

Times == 0..MaxTime

\* the non-decreasing sequences of n times
Chains(n) == { f \in [ 1..n -> Times ] : \A k \in 1..(n - 1) : f[k] <= f[k + 1] }

WrapTexts == { <<>>, << "a" >>, << "a", "b" >> }

\* the times of n words that last and follow one another, with or without gaps
WordChains(n) == { f \in Chains(2 * n) : \A j \in 1..n : f[2 * j - 1] < f[2 * j] }

\* one segment of n words that follow one another; the segment spans its words
WrapSegments(n) ==
    IF n = 0
    THEN { [ start |-> f[1], end |-> f[2], words |-> <<>> ] : f \in Chains(2) }
    ELSE { [ start |-> f[1], end |-> f[2 * n],
             words |-> [ j \in 1..n |-> [ word |-> txt[j], start |-> f[2 * j - 1],
                                          end |-> f[2 * j] ] ] ] :
             f \in WordChains(n), txt \in [ 1..n -> WrapTexts ] }

\* one segment, many words, the styles that decide the wrapping
WrapInputs ==
    { << << seg >>, [ BaseCfg EXCEPT !.scale_percent = sc,
                                     !.subtitle_area_width_percent = pct ] >> :
        seg \in UNION { WrapSegments(n) : n \in 0..MaxWords },
        sc \in { 100, 150 }, pct \in { 50, 65, 100 } }

\* a segment of the time range f with n = 0 or 1 word that spans it
SpanSegment(f, n) ==
    [ start |-> f[1], end |-> f[2],
      words |-> IF n = 0 THEN <<>>
                ELSE << [ word |-> << "a" >>, start |-> f[1], end |-> f[2] ] >> ]

SpanSegments == { SpanSegment(f, 1) : f \in Chains(2) }

\* many segments in any order, overlapping or not
ResolveInputs ==
    { << tr, BaseCfg >> : tr \in UNION { [ 1..n -> SpanSegments ] : n \in 0..MaxSegs } }

\* a segment of two words, one of them active at a time, both outlined, under
\* every choice of the six opacities between none and full
OpacityInputs ==
    { << << [ start |-> 0, end |-> MaxTime,
              words |-> << [ word |-> << "a" >>, start |-> 0, end |-> 1 ],
                           [ word |-> << "b" >>, start |-> 2, end |-> MaxTime ] >> ] >>,
         [ BaseCfg EXCEPT !.normal_border_thickness = 1,
                          !.bg_opacity = op[1], !.active_word_bg_opacity = op[2],
                          !.normal_font_opacity = op[3], !.active_font_opacity = op[4],
                          !.normal_border_opacity = op[5],
                          !.active_border_opacity = op[6] ] >> :
        op \in [ 1..6 -> { 0, 100 } ] }

FrameInputs == WrapInputs \cup ResolveInputs \cup OpacityInputs

\* transcripts and styles for sequences of frame requests
RequestInputs ==
    { << tr, [ BaseCfg EXCEPT !.scale_percent = sc, !.word_case = wc ] >> :
        tr \in { <<>>,
                  << [ start |-> 0, end |-> MaxTime,
                       words |-> << [ word |-> << " ", "a" >>, start |-> 0, end |-> 1 ],
                                    [ word |-> << "b" >>, start |-> 1, end |-> MaxTime ] >> ] >>,
                  << SpanSegment(<< 0, 2 >>, 1), SpanSegment(<< 1, MaxTime >>, 1) >> },
        sc \in { 100, 150 }, wc \in { "As Is", "UPPERCASE" } }

FrameIdle ==
    /\ transcript = <<>>
    /\ cfg = BaseCfg
    /\ frame = NoFrame
    /\ requests = <<>>

\* a frame function that keeps, in each word of the segment it rendered, the
\* text it measured to advance the pen: the rendered text and a space
closure_after_frame_keeping_text(c, tr, t) ==
    [ cfg |-> c,
      transcript |->
        [ i \in 1..Len(tr) |->
            IF \E k \in 1..Len(make_frame(c, tr, t).rendered) :
                   make_frame(c, tr, t).rendered[k] = i
            THEN [ tr[i] EXCEPT !.words =
                     [ j \in 1..Len(tr[i].words) |->
                         [ tr[i].words[j] EXCEPT !.word =
                             apply_case(Strip(@), c.word_case) \o << " " >> ] ] ]
            ELSE tr[i] ] ]

\* what make_frame leaves in the variables it closes over: it assigns only its
\* own locals (img, the overlay, the line lists, word_text, ...) and reads the
\* transcript, the style values and the fonts
closure_after_frame(c, tr, t) == [ cfg |-> c, transcript |-> tr ]

\* the encoder asks for the frame at time t
MakeFrame(t) ==
    /\ frame' = make_frame(cfg, transcript, t)
    /\ transcript' = closure_after_frame(cfg, transcript, t).transcript
    /\ cfg' = closure_after_frame(cfg, transcript, t).cfg
    /\ UNCHANGED requests
    /\ UNCHANGED << colorVars, srtVars, genVars, renderVars, rectVars, appVars >>

\* a frame is asked for at any time, in any order, and what it returned is kept
RequestFrame(t) ==
    /\ Len(requests) < MaxRequests
    /\ frame' = make_frame(cfg, transcript, t)
    /\ transcript' = closure_after_frame(cfg, transcript, t).transcript
    /\ cfg' = closure_after_frame(cfg, transcript, t).cfg
    /\ requests' = Append(requests, [ t |-> t, returned |-> frame'.out,
                                       transcript |-> transcript, cfg |-> cfg ])
    /\ UNCHANGED << colorVars, srtVars, genVars, renderVars, rectVars, appVars >>

-----------------------------------------------------------------------------
(* generate_video (app.py) calling render_subtitled_video *)

\* the parameters of render_subtitled_video
RenderParameters ==
    { "input_path", "transcript", "output_path", "st_bar", "log_func", "font_size",
      "word_case", "normal_font_color", "normal_font_opacity", "normal_border_color",
      "normal_border_opacity", "normal_border_thickness", "active_font_color",
      "active_font_opacity", "active_word_size_scale", "active_word_bg_color",
      "active_word_bg_opacity", "active_word_bg_border_radius", "active_border_color",
      "active_border_opacity", "active_border_thickness", "bg_color", "bg_opacity",
      "bg_border_radius", "y_position_percent", "x_offset",
      "subtitle_area_width_percent" }

\* the keyword arguments generate_video passes
GenerateKeywords ==
    { "st_bar", "log_func", "selected_font", "word_case", "font_size",
      "normal_font_color", "normal_font_opacity", "normal_border_color",
      "normal_border_opacity", "normal_border_thickness", "active_font_color",
      "active_font_opacity", "active_word_size_scale", "active_word_bg_color",
      "active_word_bg_opacity", "active_word_bg_border_radius", "active_border_color",
      "active_border_opacity", "active_border_thickness", "bg_color", "bg_opacity",
      "bg_border_radius", "y_position_percent", "x_offset",
      "subtitle_area_width_percent", "disable_active_style" }

\* a call with a keyword the function does not take raises TypeError before the
\* function's body runs; generate_video catches it and returns (False, None)
generate_video(c, tr) ==
    IF GenerateKeywords \subseteq RenderParameters
    THEN [ called |-> TRUE, success |-> TRUE, path |-> "output_path", error |-> "",
           frames |-> [ k \in 1..(MaxTime + 2) |-> make_frame(c, tr, k - 1) ] ]
    ELSE [ called |-> TRUE, success |-> FALSE, path |-> "None", error |-> "TypeError",
           frames |-> <<>> ]

GenIdle ==
    /\ session = [ disable_active_style |-> TRUE ]
    /\ gen_result = [ called |-> FALSE, success |-> FALSE, path |-> "None", error |-> "",
                      frames |-> <<>> ]

GenerateVideo ==
    /\ ~gen_result.called
    /\ gen_result' = generate_video(cfg, transcript)
    /\ UNCHANGED << session, transcript, cfg, frame, requests >>
    /\ UNCHANGED << colorVars, srtVars, renderVars, rectVars, appVars >>

-----------------------------------------------------------------------------
(* get_font_path and the body of render_subtitled_video *)

Platforms == { "win32", "linux", "darwin", "other" }

\* the font files get_font_path looks for, in order
FontPaths(platform) ==
    CASE platform = "win32" -> << "WINDIR/Fonts/Arial.ttf" >>
      [] platform = "linux" -> << "/usr/share/fonts/truetype/dejavu/DejaVuSans.ttf",
                                  "/usr/share/fonts/truetype/noto/NotoSans-Regular.ttf",
                                  "/usr/share/fonts/truetype/liberation/LiberationSans-Regular.ttf" >>
      [] platform = "darwin" -> << "/Library/Fonts/Arial.ttf",
                                   "/System/Library/Fonts/Arial.ttf" >>
      [] OTHER -> <<>>

\* get_font_path: what it returns or raises, and what it logs.  On win32 it
\* returns the font object ImageFont.truetype(font_name) made, not a path.
get_font_path(e) ==
    LET found == { k \in 1..Len(FontPaths(e.platform)) : k \in e.exists }
        fallback == [ kind |-> "None", path |-> "", log |-> << "ERROR: No suitable font" >> ]
    IN IF e.platform = "win32"
       THEN IF e.pillow_finds
            THEN [ kind |-> "font_object", path |-> "", log |-> <<>> ]
            ELSE IF ~e.windir_set
            THEN [ kind |-> "KeyError", path |-> "", log |-> << "Warning" >> ]
            ELSE IF found # {}
            THEN [ kind |-> "path", path |-> FontPaths(e.platform)[1], log |-> << "Warning" >> ]
            ELSE [ fallback EXCEPT !.log = << "Warning" >> \o @ ]
       ELSE IF found # {}
            THEN [ kind |-> "path", path |-> FontPaths(e.platform)[Least(found)], log |-> <<>> ]
            ELSE fallback

\* ImageFont.truetype(font_path, size) if font_path else ImageFont.load_default():
\* a path loads when the file is a font, and raises OSError when it is not; a
\* font object is neither a path nor a file to read
load_fonts(e, fp) ==
    CASE fp.kind = "None" -> [ raised |-> "", found |-> FALSE ]
      [] fp.kind = "path" -> IF e.loadable THEN [ raised |-> "", found |-> TRUE ]
                             ELSE [ raised |-> "OSError", found |-> FALSE ]
      [] fp.kind = "font_object" -> [ raised |-> "AttributeError", found |-> FALSE ]
      [] OTHER -> [ raised |-> fp.kind, found |-> FALSE ]

\* the number of frames the encoder asks for, at times 0, 1, ...
NumFrames == MaxTime + 2

NoFailure == [ t |-> -1, kind |-> "" ]

RenderNotStarted ==
    [ pc |-> "idle", log |-> <<>>, clip_open |-> FALSE, rgba |-> <<>>,
      encoder_started |-> FALSE, times |-> <<>>, wraps |-> <<>>, frame_wraps |-> 0,
      failure |-> NoFailure, raised |-> "" ]

\* an except clause that logs the error and goes on
ExceptClauseResume(r, e) == [ r EXCEPT !.log = Append(@, "ERROR") ]

\* except Exception as e: log_func(...); traceback.print_exc(); raise
ExceptClause(r, e) == [ r EXCEPT !.log = Append(@, "ERROR"), !.pc = "raised", !.raised = e ]

\* the six colours and their opacities, in the order they are converted
ColourOpacities(c) ==
    << c.normal_font_opacity, c.normal_border_opacity, c.active_font_opacity,
       c.active_border_opacity, c.active_word_bg_opacity, c.bg_opacity >>

RECURSIVE ConvertColours(_, _, _, _)
\* normal_text_rgba = hex_to_rgba(...) ... background_rgba = hex_to_rgba(...):
\* the conversions stop at the first one that raises
ConvertColours(colours, opacities, k, done) ==
    IF k > Len(colours) THEN [ raised |-> "", rgba |-> done ]
    ELSE LET r == hex_to_rgba(colours[k], opacities[k])
         IN IF r.status = "ValueError" THEN [ raised |-> "ValueError", rgba |-> done ]
            ELSE ConvertColours(colours, opacities, k + 1, Append(done, r.value))

\* render_subtitled_video is entered: the first log line, the clip is opened
RenderOpen ==
    /\ render.pc = "start"
    /\ env.caller = "direct"
    /\ render' = [ render EXCEPT !.pc = "colours",
                                 !.log = @ \o << "Rendering subtitles", "Video dimensions" >>,
                                 !.clip_open = TRUE ]
    /\ UNCHANGED << env, frameVars >>
    /\ UNCHANGED << colorVars, srtVars, genVars, rectVars, appVars >>

\* generate_video calls render_subtitled_video with its keywords: when they
\* bind the body is entered as for a direct call, otherwise the TypeError of
\* the call is caught by generate_video, which returns (False, None)
CallFromGenerateVideo ==
    /\ render.pc = "start"
    /\ env.caller = "generate_video"
    /\ IF GenerateKeywords \subseteq RenderParameters
       THEN /\ render' = [ render EXCEPT
                             !.pc = "colours",
                             !.log = @ \o << "Rendering subtitles", "Video dimensions" >>,
                             !.clip_open = TRUE ]
            /\ UNCHANGED gen_result
       ELSE /\ render' = [ render EXCEPT !.pc = "raised", !.raised = "TypeError" ]
            /\ gen_result' = [ called |-> TRUE, success |-> FALSE, path |-> "None",
                               error |-> "TypeError", frames |-> <<>> ]
    /\ UNCHANGED << env, frameVars, session >>
    /\ UNCHANGED << colorVars, srtVars, rectVars, appVars >>

\* the six hex_to_rgba calls
RenderColours ==
    /\ render.pc = "colours"
    /\ LET r == ConvertColours(env.colours, ColourOpacities(cfg), 1, <<>>)
       IN render' = IF r.raised # ""
                    THEN ExceptClause([ render EXCEPT !.rgba = r.rgba ], r.raised)
                    ELSE [ render EXCEPT !.pc = "fonts", !.rgba = r.rgba ]
    /\ UNCHANGED << env, frameVars >>
    /\ UNCHANGED << colorVars, srtVars, genVars, rectVars, appVars >>

\* font_path = get_font_path(...); normal_font = ...; active_font = ...
RenderFonts ==
    /\ render.pc = "fonts"
    /\ LET fp == get_font_path(env)
           fonts == load_fonts(env, fp)
           logged == [ render EXCEPT !.log = @ \o fp.log ]
       IN /\ render' = IF fonts.raised # ""
                       THEN ExceptClause(logged, fonts.raised)
                       ELSE [ logged EXCEPT !.pc = "make_clip",
                                            !.log = @ \o << "Normal font size",
                                                            "Active word font size",
                                                            "Max subtitle width" >> ]
          /\ cfg' = [ cfg EXCEPT !.font_path_found = fonts.found ]
    /\ UNCHANGED << env, transcript, frame, requests >>
    /\ UNCHANGED << colorVars, srtVars, genVars, rectVars, appVars >>

\* final_video_clip = VideoClip(make_frame, ...); write_videofile starts
RenderStartEncoder ==
    /\ render.pc = "make_clip"
    /\ render' = [ render EXCEPT !.pc = "encoding", !.encoder_started = TRUE,
                                 !.wraps = [ i \in 1..Len(transcript) |-> 0 ] ]
    /\ UNCHANGED << env, frameVars >>
    /\ UNCHANGED << colorVars, srtVars, genVars, rectVars, appVars >>

\* write_videofile asks for the next frame; decoding the input frame or
\* writing the output frame may fail
RenderFrame(outcome) ==
    /\ render.pc = "encoding"
    /\ Len(render.times) < NumFrames
    /\ frame' = IF outcome = "frame_raises" THEN frame
                ELSE make_frame(cfg, transcript, Len(render.times))
    /\ LET t == Len(render.times)
           asked == [ render EXCEPT !.times = Append(@, t) ]
           drawn == [ asked EXCEPT
                        !.wraps = [ i \in 1..Len(transcript) |->
                                      @[i] + IF \E k \in 1..Len(frame'.rendered) :
                                                   frame'.rendered[k] = i
                                             THEN 1 ELSE 0 ],
                        !.frame_wraps = @ + Len(frame'.rendered) ]
       IN render' =
            CASE outcome = "ok" -> drawn
              [] outcome = "frame_raises" ->
                   ExceptClause([ asked EXCEPT !.failure = [ t |-> t, kind |-> "frame" ] ],
                                "OSError")
              [] outcome = "encoder_raises" ->
                   ExceptClause([ drawn EXCEPT !.failure = [ t |-> t, kind |-> "encoder" ] ],
                                "OSError")
    /\ transcript' = closure_after_frame(cfg, transcript, Len(render.times)).transcript
    /\ cfg' = closure_after_frame(cfg, transcript, Len(render.times)).cfg
    /\ UNCHANGED << env, requests >>
    /\ UNCHANGED << colorVars, srtVars, genVars, rectVars, appVars >>

\* write_videofile returns; clip.close(); the success line is logged
RenderFinish ==
    /\ render.pc = "encoding"
    /\ Len(render.times) = NumFrames
    /\ render' = [ render EXCEPT !.pc = "returned", !.clip_open = FALSE,
                                 !.log = Append(@, "Subtitled video rendered") ]
    /\ UNCHANGED << env, frameVars >>
    /\ UNCHANGED << colorVars, srtVars, genVars, rectVars, appVars >>

ValidColour == << "#", "F", "F", "0", "0", "8", "8" >>

\* colour strings that are not six hexadecimal digits
MalformedColours ==
    { << "#", "Z", "Z", "Z", "Z", "Z", "Z" >>, << >>,
      << "#", "F", "F", "F", "F", "F", "F", "F" >>, << "#", "F", "F", "F", "F", "F" >> }

\* the six colour strings of a call: all valid, or one of them malformed
ColourArguments ==
    { [ k \in 1..6 |-> ValidColour ] }
    \cup { [ k \in 1..6 |-> IF k = bad THEN m ELSE ValidColour ] :
             bad \in 1..6, m \in MalformedColours }

FontEnvs ==
    [ platform : Platforms, pillow_finds : BOOLEAN, windir_set : BOOLEAN,
      exists : SUBSET (1..3), loadable : BOOLEAN ]

RenderTranscripts ==
    { <<>>, << SpanSegment(<< 0, 1 >>, 1) >>,
      << SpanSegment(<< 0, 1 >>, 1), SpanSegment(<< 2, MaxTime >>, 1) >> }

DefaultFontEnv ==
    [ platform |-> "linux", pillow_finds |-> FALSE, windir_set |-> FALSE,
      exists |-> { 1 }, loadable |-> TRUE ]

RenderEnvs ==
    { [ caller |-> "direct", colours |-> [ k \in 1..6 |-> ValidColour ],
        platform |-> f.platform, pillow_finds |-> f.pillow_finds,
        windir_set |-> f.windir_set, exists |-> f.exists, loadable |-> f.loadable ] :
        f \in FontEnvs }
    \cup { DefaultFontEnv @@ [ caller |-> cl, colours |-> cs ] :
             cl \in { "direct", "generate_video" }, cs \in ColourArguments }

RenderIdle ==
    /\ env = DefaultFontEnv @@ [ caller |-> "", colours |-> <<>> ]
    /\ render = RenderNotStarted

-----------------------------------------------------------------------------
(* draw_rounded_rectangle.  Sides are even, so that half a side is a whole
   number of pixels. *)

\* min(radius, (x1 - x0) / 2, (y1 - y0) / 2)
ClampRadius(xy, radius) == Min(radius, Min((xy[3] - xy[1]) \div 2, (xy[4] - xy[2]) \div 2))

\* the primitives drawn, in order
draw_rounded_rectangle(xy, radius) ==
    LET x0 == xy[1]
        y0 == xy[2]
        x1 == xy[3]
        y1 == xy[4]
        r == ClampRadius(xy, radius)
    IN IF r <= 0
       THEN << [ op |-> "rectangle", box |-> xy, start |-> 0, end |-> 0 ] >>
       ELSE << [ op |-> "rectangle", box |-> << x0 + r, y0, x1 - r, y1 >>, start |-> 0, end |-> 0 ],
               [ op |-> "rectangle", box |-> << x0, y0 + r, x1, y1 - r >>, start |-> 0, end |-> 0 ],
               [ op |-> "pieslice", box |-> << x0, y0, x0 + 2 * r, y0 + 2 * r >>,
                 start |-> 180, end |-> 270 ],
               [ op |-> "pieslice", box |-> << x1 - 2 * r, y0, x1, y0 + 2 * r >>,
                 start |-> 270, end |-> 360 ],
               [ op |-> "pieslice", box |-> << x0, y1 - 2 * r, x0 + 2 * r, y1 >>,
                 start |-> 90, end |-> 180 ],
               [ op |-> "pieslice", box |-> << x1 - 2 * r, y1 - 2 * r, x1, y1 >>,
                 start |-> 0, end |-> 90 ] >>

\* the pixels a primitive paints: a rectangle paints its box, both corners
\* included; a pieslice paints the quarter of the disc inscribed in its box
\* between its two angles (clockwise from three o'clock, y pointing down)
Paints(prim, x, y) ==
    LET b == prim.box
        cx == (b[1] + b[3]) \div 2
        cy == (b[2] + b[4]) \div 2
        r == (b[3] - b[1]) \div 2
    IN IF prim.op = "rectangle"
       THEN b[1] <= x /\ x <= b[3] /\ b[2] <= y /\ y <= b[4]
       ELSE /\ (x - cx) * (x - cx) + (y - cy) * (y - cy) <= r * r
            /\ CASE prim.start = 180 -> x <= cx /\ y <= cy
                 [] prim.start = 270 -> x >= cx /\ y <= cy
                 [] prim.start = 90 -> x <= cx /\ y >= cy
                 [] OTHER -> x >= cx /\ y >= cy

MaxHalfSide == 3     \* half the longest side of a rectangle
MaxRadius == 4       \* the largest radius asked for

RectArguments ==
    { [ xy |-> << x0, y0, x0 + 2 * hw, y0 + 2 * hh >>, radius |-> r ] :
        x0 \in { 0, 1 }, y0 \in { 0, 1 }, hw \in 1..MaxHalfSide, hh \in 1..MaxHalfSide,
        r \in 0..MaxRadius }

RectIdle == rect = [ xy |-> << 0, 0, 0, 0 >>, radius |-> 0, called |-> FALSE, prims |-> <<>> ]

DrawRoundedRectangle ==
    /\ ~rect.called
    /\ rect' = [ rect EXCEPT !.called = TRUE,
                             !.prims = draw_rounded_rectangle(rect.xy, rect.radius) ]
    /\ UNCHANGED << colorVars, frameVars, srtVars, genVars, renderVars, appVars >>

-----------------------------------------------------------------------------------------------------------------------------------------------------
(* The session of app.py: upload, handle_generation, the regenerate button of
   the SRT editor and the output section.  One action is one run of the
   script, which ends with the output section. *)

Videos == 1..MaxVideos

\* None, for a path of st.session_state
NoPath == [ dir |-> 0, name |-> "None" ]

\* None, for st.session_state.original_transcript
NoTranscript == [ none |-> TRUE, segments |-> <<>> ]

\* the transcript Whisper gives for video v: v segments of one word each,
\* except that the last video has no speech
transcribe(v) == IF v = MaxVideos THEN <<>> ELSE [ i \in 1..v |-> SrtSegment(i - 1, 1) ]

\* the defaults of the session-state initialisation
SessionDefaults ==
    [ uploaded_video |-> 0, temp_dirs |-> <<>>, generated_video_path |-> NoPath,
      original_video_path |-> NoPath, original_transcript |-> NoTranscript,
      srt_content |-> <<>> ]

EmptyDisk == [ made |-> 0, dirs |-> {}, files |-> {} ]

AppIdle ==
    /\ app = SessionDefaults
    /\ disk = EmptyDisk
    /\ page = "idle"

\* shutil.rmtree(d)
rmtree(dk, d) ==
    [ dk EXCEPT !.dirs = @ \ { d }, !.files = { f \in @ : f.dir # d } ]

RECURSIVE RemoveAll(_, _, _)
\* for d in st.session_state.temp_dirs: if os.path.exists(d): shutil.rmtree(d)
RemoveAll(dk, temp_dirs, k) ==
    IF k > Len(temp_dirs) THEN dk
    ELSE RemoveAll(IF temp_dirs[k] \in dk.dirs THEN rmtree(dk, temp_dirs[k]) ELSE dk,
                   temp_dirs, k + 1)

\* cleanup_temp_dirs: the session and the disk after it
cleanup_temp_dirs(a, dk) ==
    [ app |-> [ a EXCEPT !.temp_dirs = <<>> ], disk |-> RemoveAll(dk, a.temp_dirs, 1) ]

\* tempfile.mkdtemp(): a directory that did not exist before
mkdtemp(dk) == [ dk EXCEPT !.made = @ + 1, !.dirs = @ \cup { dk.made + 1 } ]

\* a file is written
WriteFile(dk, d, name, v) ==
    [ dk EXCEPT !.files = { f \in @ : ~(f.dir = d /\ f.name = name) }
                          \cup { [ dir |-> d, name |-> name, video |-> v ] } ]

\* os.path.exists(path), for a file
FileExists(dk, path) == \E f \in dk.files : f.dir = path.dir /\ f.name = path.name

\* the video a file holds (0 when there is no such file)
VideoAt(dk, path) ==
    IF FileExists(dk, path)
    THEN (CHOOSE f \in dk.files : f.dir = path.dir /\ f.name = path.name).video
    ELSE 0

\* what the call of render_subtitled_video made by generate_video may do
RenderOutcomes == { "returns", "raises" }

\* generate_video: (True, output_path) when the render returned, (False, None)
\* when it raised; a render cannot return without its input file
GenerateVideoResult(dk, input_path, output_path, render_outcome) ==
    IF render_outcome = "returns" /\ FileExists(dk, input_path)
    THEN [ success |-> TRUE, final_path |-> output_path,
           disk |-> WriteFile(dk, output_path.dir, output_path.name,
                              VideoAt(dk, input_path)) ]
    ELSE [ success |-> FALSE, final_path |-> NoPath, disk |-> dk ]

\* where a generation may fail
GenerationOutcomes ==
    { [ stage |-> "extract_audio", render |-> "raises" ],
      [ stage |-> "transcribe", render |-> "raises" ] }
    \cup { [ stage |-> "", render |-> r ] : r \in RenderOutcomes }

\* handle_generation, after the upload check: the session and the disk after it
handle_generation(a, dk, outcome) ==
    LET cleaned == cleanup_temp_dirs(a, dk)
        made == mkdtemp(cleaned.disk)
        tmpdir == made.made
        in_path == [ dir |-> tmpdir, name |-> "input.mp4" ]
        audio_path == [ dir |-> tmpdir, name |-> "audio.wav" ]
        out_path == [ dir |-> tmpdir, name |-> "output.mp4" ]
        a1 == [ cleaned.app EXCEPT !.temp_dirs = Append(@, tmpdir),
                                   !.original_video_path = in_path ]
        d1 == WriteFile(made, tmpdir, in_path.name, a.uploaded_video)
        \* except Exception: generated_video_path = None
        excepted == [ a1 EXCEPT !.generated_video_path = NoPath ]
        d2 == WriteFile(d1, tmpdir, audio_path.name, a.uploaded_video)
        new_transcript == transcribe(VideoAt(d2, audio_path))
        a2 == [ a1 EXCEPT !.original_transcript = [ none |-> FALSE,
                                                    segments |-> new_transcript ],
                          !.srt_content = to_srt(new_transcript) ]
        result == GenerateVideoResult(d2, in_path, out_path, outcome.render)
    IN IF outcome.stage = "extract_audio" THEN [ app |-> excepted, disk |-> d1 ]
       ELSE IF outcome.stage = "transcribe" THEN [ app |-> excepted, disk |-> d2 ]
       ELSE [ app |-> IF result.success
                      THEN [ a2 EXCEPT !.generated_video_path = result.final_path ]
                      ELSE a2,
              disk |-> result.disk ]

\* the output section: if generated_video_path: st.video(...); open(...)
output_section(a, dk) ==
    IF a.generated_video_path = NoPath THEN "hidden"
    ELSE IF FileExists(dk, a.generated_video_path) THEN "shown"
    ELSE "FileNotFoundError"

\* what the user may leave in the text area before pressing the regenerate
\* button: the captions as shown, block 1 with another text, block 1 with a
\* broken timestamp line
EditedCaptions(a) ==
    LET blocks == EditorFrom(a.original_transcript.segments, 0)
    IN { a.srt_content }
       \cup { EditorText([ blocks EXCEPT ![1].text = e.text ]) :
                 e \in { x \in EditTexts : blocks # <<>> /\ x.text # <<>> } }
       \cup { EditorText([ blocks EXCEPT ![1].times = tl ]) :
                 tl \in { x \in TimesEdits : blocks # <<>> } }

\* the body of the regenerate button when the text was changed
regenerate(a, dk, text, render_outcome) ==
    LET made == mkdtemp(dk)
        tmpdir == made.made
        a1 == [ a EXCEPT !.temp_dirs = Append(@, tmpdir) ]
        imported == from_srt(text, a.original_transcript.segments)
        new_out_path == [ dir |-> tmpdir, name |-> "regenerated_output.mp4" ]
        result == GenerateVideoResult(made, a.original_video_path, new_out_path,
                                      render_outcome)
    IN IF imported.error # "" THEN [ app |-> a1, disk |-> made ]
       ELSE [ app |-> IF result.success
                      THEN [ a1 EXCEPT !.generated_video_path = result.final_path ]
                      ELSE a1,
              disk |-> result.disk ]

\* the user uploads video v: st.session_state.uploaded_video = uploaded
Upload(v) ==
    /\ app.uploaded_video # v
    /\ app' = [ app EXCEPT !.uploaded_video = v ]
    /\ disk' = disk
    /\ page' = output_section(app', disk')
    /\ UNCHANGED << colorVars, frameVars, srtVars, genVars, renderVars, rectVars >>

\* the button "Generate Subtitled Video"
HandleGeneration(outcome) ==
    /\ app.uploaded_video # 0
    /\ disk.made < MaxRuns
    /\ app' = handle_generation(app, disk, outcome).app
    /\ disk' = handle_generation(app, disk, outcome).disk
    /\ page' = output_section(app', disk')
    /\ UNCHANGED << colorVars, frameVars, srtVars, genVars, renderVars, rectVars >>

\* the button "Regenerate with Edited SRT", shown when original_transcript is
\* a non-empty list; unchanged text gives a warning only
Regenerate(text, render_outcome) ==
    /\ ~app.original_transcript.none
    /\ app.original_transcript.segments # <<>>
    /\ disk.made < MaxRuns
    /\ text \in EditedCaptions(app)
    /\ IF text # app.srt_content
       THEN /\ app' = regenerate(app, disk, text, render_outcome).app
            /\ disk' = regenerate(app, disk, text, render_outcome).disk
       ELSE UNCHANGED << app, disk >>
    /\ page' = output_section(app', disk')
    /\ UNCHANGED << colorVars, frameVars, srtVars, genVars, renderVars, rectVars >>

-----
(* The specifications. *)

InitSrt ==
    /\ ColorIdle /\ FrameIdle /\ GenIdle /\ RenderIdle /\ RectIdle /\ AppIdle
    /\ original_transcript \in SrtTranscripts
    /\ srt_content = <<>>
    /\ edited_srt = <<>>
    /\ editor_blocks = <<>>
    /\ edits = 0
    /\ edited_transcript = [ error |-> "", transcript |-> <<>> ]
    /\ srt_pc = "start"

NextSrt ==
    \/ Export
    \/ \E p \in 1..MaxSegs, e \in EditTexts : EditBlockText(p, e)
    \/ \E p \in 1..MaxSegs, tl \in TimesEdits : EditBlockTimes(p, tl)
    \/ \E p \in 1..MaxSegs : DeleteBlock(p)
    \/ Import

SpecSrt == InitSrt /\ [][NextSrt]_vars

InitColor ==
    /\ FrameIdle /\ SrtIdle /\ GenIdle /\ RenderIdle /\ RectIdle /\ AppIdle
    /\ \/ hex_color \in HexInputs /\ alpha_percent = 100
       \/ hex_color \in ValidColours /\ alpha_percent \in AlphaInputs
    /\ rgba = [ fn |-> "", status |-> "none", value |-> <<>> ]

NextColor == CallHexToRgba \/ CallPreviewHexToRgba

SpecColor == InitColor /\ [][NextColor]_vars

InitFrame ==
    /\ ColorIdle /\ SrtIdle /\ GenIdle /\ RenderIdle /\ RectIdle /\ AppIdle
    /\ \E inp \in FrameInputs : transcript = inp[1] /\ cfg = inp[2]
    /\ frame = NoFrame
    /\ requests = <<>>

NextFrame == \E t \in 0..(MaxTime + 1) : MakeFrame(t)

SpecFrame == InitFrame /\ [][NextFrame]_vars

InitGenerate ==
    /\ ColorIdle /\ SrtIdle /\ RenderIdle /\ RectIdle /\ AppIdle
    /\ \E inp \in FrameInputs : transcript = inp[1] /\ cfg = inp[2]
    /\ frame = NoFrame
    /\ requests = <<>>
    /\ session \in [ disable_active_style : BOOLEAN ]
    /\ gen_result = [ called |-> FALSE, success |-> FALSE, path |-> "None", error |-> "",
                      frames |-> <<>> ]

NextGenerate == GenerateVideo

SpecGenerate == InitGenerate /\ [][NextGenerate]_vars

InitRender ==
    /\ ColorIdle /\ SrtIdle /\ GenIdle /\ RectIdle /\ AppIdle
    /\ env \in RenderEnvs
    /\ transcript \in RenderTranscripts
    /\ cfg = BaseCfg
    /\ frame = NoFrame
    /\ requests = <<>>
    /\ render = [ RenderNotStarted EXCEPT !.pc = "start" ]

NextRender ==
    \/ RenderOpen
    \/ CallFromGenerateVideo
    \/ RenderColours
    \/ RenderFonts
    \/ RenderStartEncoder
    \/ \E outcome \in { "ok", "frame_raises", "encoder_raises" } : RenderFrame(outcome)
    \/ RenderFinish

SpecRender == InitRender /\ [][NextRender]_vars

InitRequests ==
    /\ ColorIdle /\ SrtIdle /\ GenIdle /\ RenderIdle /\ RectIdle /\ AppIdle
    /\ \E inp \in RequestInputs : transcript = inp[1] /\ cfg = inp[2]
    /\ frame = NoFrame
    /\ requests = <<>>

NextRequests == \E t \in 0..(MaxTime + 1) : RequestFrame(t)

SpecRequests == InitRequests /\ [][NextRequests]_vars

InitRect ==
    /\ ColorIdle /\ FrameIdle /\ SrtIdle /\ GenIdle /\ RenderIdle /\ AppIdle
    /\ \E a \in RectArguments : rect = [ xy |-> a.xy, radius |-> a.radius,
                                          called |-> FALSE, prims |-> <<>> ]

NextRect == DrawRoundedRectangle

SpecRect == InitRect /\ [][NextRect]_vars

InitSession ==
    /\ ColorIdle /\ FrameIdle /\ SrtIdle /\ GenIdle /\ RenderIdle /\ RectIdle
    /\ app = SessionDefaults
    /\ disk = EmptyDisk
    /\ page = "hidden"

NextSession ==
    \/ \E v \in Videos : Upload(v)
    \/ \E outcome \in GenerationOutcomes : HandleGeneration(outcome)
    \/ \E render_outcome \in RenderOutcomes :
         \E text \in EditedCaptions(app) : Regenerate(text, render_outcome)

SpecSession == InitSession /\ [][NextSession]_vars

-----------------------------------------------------------------------------
(* The claims. *)

\* the segments of the transcript whose time range contains the frame's time
LiveSegments ==
    { i \in 1..Len(transcript) :
        transcript[i].start <= frame.t /\ frame.t <= transcript[i].end }

\* C1: captions round-trip: importing the unmodified export of a transcript T
\* returns one segment per segment of T, in order, and every word keeps the
\* start and end of the word at its position in T.
C1_RoundTrip ==
    (srt_pc = "imported" /\ edits = 0) =>
        /\ edited_transcript.error = ""
        /\ Len(edited_transcript.transcript) = Len(original_transcript)
        /\ \A i \in 1..Len(original_transcript) :
             /\ Len(edited_transcript.transcript[i].words) = Len(original_transcript[i].words)
             /\ \A j \in 1..Len(original_transcript[i].words) :
                  /\ edited_transcript.transcript[i].words[j].start
                       = original_transcript[i].words[j].start
                  /\ edited_transcript.transcript[i].words[j].end
                       = original_transcript[i].words[j].end

\* the measured width of a line: its word widths and one space between neighbours
MeasuredWidth(seg, line) ==
    SumSeq([ k \in 1..Len(line) |-> word_width(cfg, seg.words[line[k]], frame.t) ])
    + (Len(line) - 1) * textlength(<< " " >>, normal_font(cfg))

\* C2: wrap correctness: every line the wrapping loop produces measures at most
\* the max width, except a line of exactly one word that is itself wider.
C2_WrapCorrectness ==
    frame.called =>
        \A k \in 1..Len(frame.layouts) :
            LET seg == transcript[frame.layouts[k].seg]
            IN \A n \in 1..Len(frame.layouts[k].lines) :
                 LET line == frame.layouts[k].lines[n]
                 IN \/ MeasuredWidth(seg, line) <= max_subtitle_width_pixels(cfg)
                    \/ /\ Len(line) = 1
                       /\ word_width(cfg, seg.words[line[1]], frame.t)
                            > max_subtitle_width_pixels(cfg)

\* C3: resolver coverage: a frame renders the first segment, in transcript order,
\* whose range contains t and no other segment; it renders none when no
\* segment contains t.
C3_ResolverCoverage ==
    frame.called =>
        IF LiveSegments = {}
        THEN frame.rendered = <<>> /\ frame.draws = <<>>
        ELSE /\ frame.rendered = << Least(LiveSegments) >>
             /\ \A d \in 1..Len(frame.draws) : frame.draws[d].seg = Least(LiveSegments)

\* C3 witness: two different segments contain t and the first one was rendered
C3_Witness ==
    /\ frame.called
    /\ Cardinality(LiveSegments) >= 2
    /\ transcript[1] # transcript[2]
    /\ frame.rendered = << 1 >>
    /\ frame.draws # <<>>

\* the words of segment si that the frame drew with the active fill
ActiveDrawn(si) ==
    { frame.draws[d].word : d \in { e \in 1..Len(frame.draws) :
                                      /\ frame.draws[e].seg = si
                                      /\ frame.draws[e].what = "fill"
                                      /\ frame.draws[e].fill = "active_text_rgba" } }

\* C4: active-word uniqueness: a frame draws at most one word of the live
\* segment with the active style, the first word in order whose range contains
\* t, and none when t lies in a gap between words.
C4_ActiveWordUnique ==
    frame.called =>
        \A k \in 1..Len(frame.rendered) :
            LET si == frame.rendered[k]
                containing == { j \in 1..Len(transcript[si].words) :
                                  /\ transcript[si].words[j].start <= frame.t
                                  /\ frame.t <= transcript[si].words[j].end }
            IN ActiveDrawn(si) = IF containing = {} THEN {} ELSE { Least(containing) }

\* C5: layout is independent of time: two frames of the same segment, under the
\* same style and max width, have the same partition into lines and the same
\* block width.
C5_LayoutTimeIndependent ==
    [][ (frame.called /\ frame'.called /\ frame.rendered # <<>>
         /\ frame.rendered = frame'.rendered)
        => \A k \in 1..Len(frame.layouts) :
             /\ frame'.layouts[k].lines = frame.layouts[k].lines
             /\ frame'.layouts[k].block_width = frame.layouts[k].block_width ]_vars

\* C6: at a time outside every segment's range the returned frame equals the
\* decoded input frame: no draw call is issued and no overlay is composited.
C6_OutsideFrameUntouched ==
    (frame.called /\ LiveSegments = {}) =>
        /\ frame.out = [ px |-> get_frame(frame.t), over |-> <<>> ]
        /\ frame.draws = <<>>
        /\ frame.composites = 0

\* C6 witness: a frame was made at a time outside both segments of a transcript
C6_Witness ==
    /\ frame.called
    /\ Len(transcript) = 2
    /\ LiveSegments = {}
    /\ frame.out.px = get_frame(frame.t)

\* every draw call of the frame uses the normal style
AllDrawnNormal(f) ==
    \A d \in 1..Len(f.draws) :
        /\ f.draws[d].what # "word_bg"
        /\ f.draws[d].op = "text" =>
             /\ f.draws[d].font = normal_font(cfg).size
             /\ f.draws[d].fill \in { "normal_text_rgba", "normal_border_rgba" }

\* C7: with the active style disabled, a render started by generate_video runs
\* and every frame draws every word with the normal font, fill and outline,
\* and no active-word background box.
C7_DisabledActiveStyleRendersNormal ==
    (gen_result.called /\ session.disable_active_style) =>
        /\ gen_result.success
        /\ gen_result.frames # <<>>
        /\ \A k \in 1..Len(gen_result.frames) : AllDrawnNormal(gen_result.frames[k])

\* the opacity of the styled element a draw call paints
ElementOpacity(c, d) ==
    CASE d.what = "block_bg" -> c.bg_opacity
      [] d.what = "word_bg" -> c.active_word_bg_opacity
      [] d.fill = "normal_text_rgba" -> c.normal_font_opacity
      [] d.fill = "active_text_rgba" -> c.active_font_opacity
      [] d.fill = "normal_border_rgba" -> c.normal_border_opacity
      [] d.fill = "active_border_rgba" -> c.active_border_opacity

\* C11: opacity 0 suppresses drawing: a frame issues no draw call for a styled
\* element (block background, active-word background, normal or active fill,
\* normal or active outline) whose opacity is 0.
C11_OpacityZeroSuppressesDraw ==
    frame.called =>
        \A d \in 1..Len(frame.draws) : ElementOpacity(cfg, frame.draws[d]) > 0

\* exactly six hexadecimal digits
SixHexDigits(s) == Len(s) = 6 /\ \A k \in 1..6 : s[k] \in HexDigitChars

\* C12: layout is computed once per segment: during a render the wrapping of a
\* segment is computed at most once, and no frame request performs wrapping.
C12_LayoutComputedOnce ==
    /\ render.frame_wraps = 0
    /\ \A i \in 1..Len(render.wraps) : render.wraps[i] <= 1

\* C13: fail-stop rendering: once the frame function or the encoder has raised
\* for a frame, the render has stopped with that error: the failing frame is
\* the last one requested, no frame was requested twice, the success line is
\* not logged, and generate_video reports (False, None) for a raised render.
C13_FailStop ==
    /\ render.failure # NoFailure =>
          /\ render.pc = "raised"
          /\ render.raised = "OSError"
          /\ \A k \in 1..Len(render.log) : render.log[k] # "Subtitled video rendered"
          /\ render.times # <<>>
          /\ render.times[Len(render.times)] = render.failure.t
          /\ \A k, m \in 1..Len(render.times) : render.times[k] = render.times[m] => k = m
    /\ (render.pc = "raised" /\ env.caller = "generate_video") =>
          /\ gen_result.called
          /\ ~gen_result.success
          /\ gen_result.path = "None"

\* C13 witness: the encoder raised for a frame after it had taken earlier ones
C13_Witness ==
    /\ render.failure.kind = "encoder"
    /\ render.failure.t >= 1
    /\ render.pc = "raised"
    /\ Len(render.log) >= 2

\* C14: font fallback: on every platform and for every state of the font files
\* the render gets past font resolution without raising, and uses the built-in
\* default font when get_font_path found no font file.
C14_FontFallback ==
    (env.caller = "direct" /\ Len(render.rgba) = 6 /\ render.pc # "fonts") =>
        /\ render.pc = "raised" => render.encoder_started
        /\ get_font_path(env).kind # "path" => ~cfg.font_path_found

\* C15: eager colour validation: when one of the six colour strings is not six
\* hexadecimal digits, the render aborts with the colour error before the
\* encoder is started and before any frame is requested.
C15_EagerColourValidation ==
    (env.caller = "direct"
     /\ \E k \in 1..Len(env.colours) : ~SixHexDigits(LStripHash(env.colours[k]))) =>
        /\ ~render.encoder_started
        /\ render.times = <<>>
        /\ render.pc \notin { "start", "colours" } =>
              render.pc = "raised" /\ render.raised = "ValueError"

C18_BlockBackgroundGeometry ==
    (frame.called /\ cfg.bg_opacity > 0) =>
        \A k \in 1..Len(frame.layouts) :
            LET l == frame.layouts[k]
            IN \E d \in 1..Len(frame.draws) :
                 /\ frame.draws[d].what = "block_bg"
                 /\ frame.draws[d].seg = l.seg
                 /\ frame.draws[d].xy =
                      << l.x_pos_block_start - 10, l.y_pos_block_start - 5,
                         l.x_pos_block_start + l.block_width + 10,
                         l.y_pos_block_start + l.total_text_height + 15 >>

\* the primitives of the call that paint pixel (x, y)
Painting(x, y) == { k \in 1..Len(rect.prims) : Paints(rect.prims[k], x, y) }

\* pixel (x, y) lies in the rounded rectangle xy of corner radius r
InRoundedRectangle(xy, r, x, y) ==
    LET cx == IF x < xy[1] + r THEN xy[1] + r ELSE IF x > xy[3] - r THEN xy[3] - r ELSE x
        cy == IF y < xy[2] + r THEN xy[2] + r ELSE IF y > xy[4] - r THEN xy[4] - r ELSE y
    IN /\ xy[1] <= x /\ x <= xy[3] /\ xy[2] <= y /\ y <= xy[4]
       /\ (x - cx) * (x - cx) + (y - cy) * (y - cy) <= r * r

\* C19: rounded-rectangle tiling: for a radius above 0 (after clamping) the
\* primitives drawn cover every pixel of the rounded rectangle and no pixel is
\* painted by more than one primitive.
C19_RoundedRectangleTiling ==
    (rect.called /\ ClampRadius(rect.xy, rect.radius) > 0) =>
        \A x \in rect.xy[1]..rect.xy[3], y \in rect.xy[2]..rect.xy[4] :
            /\ InRoundedRectangle(rect.xy, ClampRadius(rect.xy, rect.radius), x, y)
                 => Painting(x, y) # {}
            /\ Cardinality(Painting(x, y)) <= 1

RECURSIVE Flatten(_)
\* the lines of a layout put end to end
Flatten(lines) == IF lines = <<>> THEN <<>> ELSE Head(lines) \o Flatten(Tail(lines))

\* C20: wrapping preserves the word sequence: the lines of a rendered segment,
\* put end to end, are the segment's words in their order, each once; no line
\* is empty, and a segment without words has no lines.
C20_WrapPreservesWords ==
    frame.called =>
        \A k \in 1..Len(frame.layouts) :
            LET l == frame.layouts[k]
                n == Len(transcript[l.seg].words)
            IN /\ Flatten(l.lines) = [ j \in 1..n |-> j ]
               /\ \A m \in 1..Len(l.lines) : l.lines[m] # <<>>
               /\ n = 0 => l.lines = <<>>

\* C20 witness: a segment of two words or more was wrapped into two lines or more
C20_Witness ==
    /\ frame.called
    /\ \E k \in 1..Len(frame.layouts) :
         /\ Len(frame.layouts[k].lines) >= 2
         /\ Len(transcript[frame.layouts[k].seg].words) >= 2

RECURSIVE PairedFrom(_)
\* the positions of the editor's blocks that hold text and have an original
\* segment at their position, in order
PairedFrom(p) ==
    IF p > Len(editor_blocks) THEN <<>>
    ELSE (IF editor_blocks[p].tokens # <<>> /\ p <= Len(original_transcript)
          THEN << p >> ELSE <<>>) \o PairedFrom(p + 1)

\* C8: import word mapping: a block paired with an original segment of n words
\* gives a segment of n words; word j keeps the original start and end; its
\* text is the j-th token of the edited text if there is one, else the original
\* text; tokens beyond n are dropped.
C8_ImportWordMapping ==
    (srt_pc = "imported" /\ edited_transcript.error = "") =>
        LET paired == PairedFrom(1)
            out == edited_transcript.transcript
        IN /\ Len(out) = Len(paired)
           /\ \A k \in 1..Len(paired) :
                LET orig == original_transcript[paired[k]]
                    tokens == editor_blocks[paired[k]].tokens
                IN /\ Len(out[k].words) = Len(orig.words)
                   /\ \A j \in 1..Len(orig.words) :
                        /\ out[k].words[j].start = orig.words[j].start
                        /\ out[k].words[j].end = orig.words[j].end
                        /\ out[k].words[j].word =
                             IF j <= Len(tokens) THEN tokens[j] ELSE orig.words[j].word

\* the positions of the editor's blocks that are well formed (an index line, a
\* timestamp line with one separator, text) and have an original segment
WellFormedPaired ==
    SelectSeq(PairedFrom(1), LAMBDA p : Len(Split(editor_blocks[p].times, Arrow)) = 2)

\* C16: malformed captions input is not fatal: from_srt returns without
\* raising, skips the blocks that are not well formed and imports the others.
C16_MalformedCaptionsNotFatal ==
    srt_pc = "imported" =>
        /\ edited_transcript.error = ""
        /\ Len(edited_transcript.transcript) = Len(WellFormedPaired)
        /\ \A k \in 1..Len(WellFormedPaired) :
             edited_transcript.transcript[k].start
               = original_transcript[WellFormedPaired[k]].start

\* C8 witness: an import of a block whose edited text has one token for a
\* segment of two words
C8_Witness ==
    /\ srt_pc = "imported"
    /\ edits > 0
    /\ \E p \in 1..Len(editor_blocks) :
         /\ p <= Len(original_transcript)
         /\ Len(original_transcript[p].words) = 2
         /\ Len(editor_blocks[p].tokens) = 1
         /\ editor_blocks[p].tokens[1] = << "x" >>
         /\ Len(edited_transcript.transcript) >= p

\* C9: hex_to_rgba fails with the invalid-colour error if and only if the string
\* without its leading '#' is not exactly six hexadecimal digits.
C9_FailsIffNotSixHexDigits ==
    (rgba.status \in { "ok", "ValueError" } /\ rgba.fn = "core") =>
        (rgba.status = "ValueError" <=> ~SixHexDigits(LStripHash(hex_color)))

\* C10: the alpha of a valid colour is 255 * clamp(p, 0, 100) / 100 rounded to a
\* nearest integer (either neighbour of an exact half), hence within 0..255.
C10_AlphaRoundedAndClamped ==
    (rgba.status = "ok" /\ rgba.fn = "core" /\ SixHexDigits(LStripHash(hex_color))) =>
        LET exact100 == 255 * Max(0, Min(100, alpha_percent))
            a == rgba.value[4]
        IN /\ 100 * a - exact100 <= 50
           /\ exact100 - 100 * a <= 50
           /\ a \in 0..255

\* C21: block-to-segment alignment: every block that from_srt imports is
\* paired with the original segment that to_srt exported under the block's
\* index number, also when to_srt skipped blank segments and when the user
\* deleted or emptied a block.
C21_BlockSegmentAlignment ==
    (srt_pc = "imported" /\ edited_transcript.error = "") =>
        LET imported == PairedFrom(1)
            out == edited_transcript.transcript
        IN /\ Len(out) = Len(imported)
           /\ \A k \in 1..Len(imported) :
                LET exported == original_transcript[editor_blocks[imported[k]].num]
                IN /\ out[k].start = exported.start
                   /\ out[k].end = exported.end
                   /\ Len(out[k].words) = Len(exported.words)

\* C24: source clip release: on every exit of render_subtitled_video after the
\* input clip was opened (it returned, or it raised from the colours, the
\* fonts, a frame or the encoder) the input clip has been closed.
C24_SourceClipRelease ==
    render.pc \in { "returned", "raised" } => ~render.clip_open

C23_TranscriptOfStoredVideo ==
    ~app.original_transcript.none =>
        /\ FileExists(disk, app.original_video_path)
        /\ app.original_transcript.segments
             = transcribe(VideoAt(disk, app.original_video_path))

====
